---- MODULE Spec2Model ----
(***************************************************************************)
(* Model of src/main.rs: the Graph type (an adjacency map from node        *)
(* identifier to neighbour set), its mutation API, the breadth-first       *)
(* degrees_of_separation query, the DOT rendering, the CSV import and the  *)
(* driver main().                                                          *)
(***************************************************************************)
EXTENDS Bags, FiniteSets, Integers, Sequences, TLC

\* ------------------------------------------------------------------ bounds
\* Number of distinct identifiers the callers may pass to the mutation API.
NumIds == 3
\* Largest number of records (header included) in a modelled CSV source.
MaxRows == 3

\* Identifiers are Strings (main.rs:14).  The third one contains the text
\* that to_dot puts between two identifiers: Strings are arbitrary text.
Quoted == "askreddit\" -> \"askreddit"
Names == << "askreddit", "rotoreuters", Quoted, "funny", "fireteams", "the_donald" >>
Ids == { Names[i] : i \in 1..NumIds }
\* An identifier that is never passed to add_node / add_edge / a CSV row.
Unknown == "unknown_user"
QueryIds == Ids \cup {Unknown}

VARIABLES
  graph,    \* Graph.adj: HashMap<String, HashSet<String>>
  passed,   \* history: identifiers passed so far to add_node / add_edge
  pc,       \* "idle" | "bfs" (inside the while loop) | "done" (returned)
  start,    \* degrees_of_separation: parameter start
  end,      \* degrees_of_separation: parameter end
  queue,    \* degrees_of_separation: local VecDeque<(String, usize)>
  visited,  \* degrees_of_separation: local HashSet<String>
  pops,     \* history: how often each node was dequeued by the search
  scans,    \* history: how often each node was marked visited and scanned
  last      \* history: the last call of the public API, with its arguments
            \* and the value it returned

\* The search of section 9 of the design notes, which differs from lines
\* 74-107 in one place: it enqueues a neighbour whether visited or not.
VARIABLES
  vpc,      \* "idle" | "bfs" | "done"
  vqueue,   \* its work queue
  vvisited, \* its visited set
  vret      \* the value it returned

\* main() and the filesystem it reads and writes
VARIABLES
  main_pc,  \* the line main() is at: "start", "csv162", ..., "exit"
  main_ret, \* the Result main() returned
  pair,     \* lines 179-180: index of the pair (i, j) being queried
  stdout,   \* what println! has written
  dot_file, \* contents of graph.dot
  csv_last, \* history: the last add_from_csv call, with what it returned
  csv_errs  \* history: the lines of main whose add_from_csv call returned Err

bfs_vars == << pc, start, end, queue, visited, pops, scans >>
variant_vars == << vpc, vqueue, vvisited, vret >>
main_vars == << main_pc, main_ret, pair, stdout, dot_file, csv_last, csv_errs >>
vars == << graph, passed, pc, start, end, queue, visited, pops, scans, last,
           vpc, vqueue, vvisited, vret,
           main_pc, main_ret, pair, stdout, dot_file, csv_last, csv_errs >>

\* ------------------------------------------------------------ Option<T>
None == << "None" >>
Some(x) == << "Some", x >>

\* ---------------------------------------------------- Result<(), Box<dyn Error>>
Ok == << "Ok" >>
Err(e) == << "Err", e >>

\* --------------------------------------------------------------- HashMap
EmptyMap == [ k \in {} |-> {} ]
Insert(g, k, s) == [ x \in (DOMAIN g) \cup {k} |-> IF x = k THEN s ELSE g[x] ]

\* Graph::new
new == EmptyMap

\* Graph::add_node: entry(u).or_insert(HashSet::new())
add_node_overwrite(g, u) == Insert(g, u, {})
add_node(g, u) == IF u \in DOMAIN g THEN g ELSE Insert(g, u, {})

\* Graph::add_directed_edge: Occupied => insert v; Vacant => {v}
add_directed_edge_vacant_empty(g, u, v) ==
  IF u \in DOMAIN g THEN Insert(g, u, g[u] \cup {v}) ELSE Insert(g, u, {})
add_directed_edge_occupied_only(g, u, v) ==
  IF u \in DOMAIN g THEN Insert(g, u, g[u] \cup {v}) ELSE g
add_directed_edge(g, u, v) ==
  IF u \in DOMAIN g THEN Insert(g, u, g[u] \cup {v}) ELSE Insert(g, u, {v})

\* Graph::add_edge: both directed arcs
add_edge_one_way(g, u, v) == add_directed_edge(g, u, v)
add_edge(g, u, v) == add_directed_edge(add_directed_edge(g, u, v), v, u)

\* Graph::nodes: the keys of the map
nodes(g) == DOMAIN g

\* Graph::adj: self.adj.get(u)
adj(g, u) == IF u \in DOMAIN g THEN Some(g[u]) ELSE None

\* The stored arcs (u, v): v is in the neighbour set of the key u.
Arcs(g) == { a \in (DOMAIN g) \X UNION { g[k] : k \in DOMAIN g } : a[2] \in g[a[1]] }

\* ------------------------------------------------- degrees_of_separation
\* All orders in which `for neighbor in neighbors` may iterate a HashSet.
Orders(S) == { f \in [ 1..Cardinality(S) -> S ] : \A i, j \in DOMAIN f : i # j => f[i] # f[j] }

\* line 93: visited.insert(current) returns false iff current was in the set
already_visited_never(vis, node) == FALSE
already_visited(vis, node) == node \in vis

\* lines 98-100: the neighbours that pass `!visited.contains(neighbor)`
to_enqueue_only_visited(g, vis, node) ==
  IF node \in DOMAIN g THEN { n \in g[node] : n \in vis } ELSE {}
to_enqueue(g, vis, node) ==
  IF node \in DOMAIN g THEN { n \in g[node] : n \notin vis } ELSE {}

\* line 85: queue.pop_front()
pop_back(q) == [ item |-> q[Len(q)], rest |-> SubSeq(q, 1, Len(q) - 1) ]
pop_front(q) == [ item |-> Head(q), rest |-> Tail(q) ]

\* line 101: queue.push_back((neighbor, distance + 1)) for each neighbour
push_all(q, order, distance) ==
  q \o [ i \in DOMAIN order |-> << order[i], distance + 1 >> ]

\* lines 75-77: `if start == end { return Some(0); }`; None: no early return
early_return_known_only(g, s, e) ==
  IF s = e THEN (IF s \in DOMAIN g THEN Some(Some(0)) ELSE Some(None)) ELSE None
early_return(g, s, e) == IF s = e THEN Some(Some(0)) ELSE None

NoScans == EmptyBag

\* ---------------------------------------------------------------- to_dot
\* line 38: format!("    \"{}\" -> \"{}\";\n", node, edge): no escaping
statement(node, edge) == "    \"" \o node \o "\" -> \"" \o edge \o "\";\n"

\* lines 36-40: one push_str per (node, edge).  HashMap and HashSet iterate
\* in an unspecified order, so the pushed lines are kept as a bag.
RECURSIVE push_statements(_)
push_statements(arcs) ==
  IF arcs = {} THEN EmptyBag
  ELSE LET a == CHOOSE x \in arcs : TRUE IN
         push_statements(arcs \ {a}) (+) SetToBag({ statement(a[1], a[2]) })

\* Graph::to_dot
to_dot(g) == [ head |-> "digraph G {\n", body |-> push_statements(Arcs(g)), tail |-> "}\n" ]

\* ----------------------------------------------------------- add_from_csv
\* A CSV source as the csv reader presents it: whether File::open succeeds,
\* and the records in it, the header first.  A record is either read (with
\* the value of its first column) or an error of the reader (a row whose
\* columns do not match the header, invalid UTF-8, a failed read).
GoodRecord(name) == [ ok |-> TRUE, name |-> name ]
BadRecord == [ ok |-> FALSE, name |-> "" ]
Header == GoodRecord("name")
DataRecords == { GoodRecord(n) : n \in Ids } \cup { BadRecord }
DataRows == UNION { [ 1..n -> DataRecords ] : n \in 0..(MaxRows - 1) }
Files ==
  { [ opens |-> FALSE, records |-> << >> ], [ opens |-> TRUE, records |-> << >> ] }
    \cup { [ opens |-> TRUE, records |-> << Header >> \o rows ] : rows \in DataRows }

\* line 112: has_headers(true): records() does not yield the first record
data_records(file) == IF file.records = << >> THEN << >> ELSE Tail(file.records)

\* lines 114-118: `result?` returns at the first error; every record read
\* before it has been passed to add_node.  (record.get(0) is Some for
\* every record the reader yields, so the unwrap of line 116 succeeds.)
RECURSIVE read_records(_, _)
read_records(g, rows) ==
  IF rows = << >> THEN [ graph |-> g, result |-> Ok ]
  ELSE IF ~ Head(rows).ok THEN [ graph |-> g, result |-> Err("csv") ]
  ELSE read_records(add_node(g, Head(rows).name), Tail(rows))

\* lines 116-117: the names the loop passes to add_node
RECURSIVE read_names(_)
read_names(rows) ==
  IF rows = << >> \/ ~ Head(rows).ok THEN {}
  ELSE {Head(rows).name} \cup read_names(Tail(rows))

\* Graph::add_from_csv
add_from_csv(g, file) ==
  IF ~ file.opens THEN [ graph |-> g, result |-> Err("io") ]
  ELSE read_records(g, data_records(file))

\* ------------------------------------------------------------------ main
\* lines 128-151
FixtureNodes ==
  << "askreddit", "globaloffensivetrade", "fireteams", "funny", "the_donald",
     "rotoreuters", "fiplefip", "amici_ursi", "unremovable", "CDRE_64" >>
\* lines 154-158
FixtureEdges ==
  << << "askreddit", "rotoreuters" >>, << "globaloffensivetrade", "fiplefip" >>,
     << "fireteams", "amici_ursi" >>, << "funny", "unremovable" >>,
     << "the_donald", "CDRE_64" >> >>
\* line 176
QueryNodes == << "rotoreuters", "askreddit", "fireteams", "funny" >>
\* lines 179-180: the pairs (i, j), i < j, in loop order
QueryPairs ==
  << << QueryNodes[1], QueryNodes[2] >>, << QueryNodes[1], QueryNodes[3] >>,
     << QueryNodes[1], QueryNodes[4] >>, << QueryNodes[2], QueryNodes[3] >>,
     << QueryNodes[2], QueryNodes[4] >>, << QueryNodes[3], QueryNodes[4] >> >>

RECURSIVE add_nodes(_, _)
add_nodes(g, us) == IF us = << >> THEN g ELSE add_nodes(add_node(g, Head(us)), Tail(us))
RECURSIVE add_edges(_, _)
add_edges(g, es) ==
  IF es = << >> THEN g ELSE add_edges(add_edge(g, Head(es)[1], Head(es)[2]), Tail(es))

Range(f) == { f[i] : i \in DOMAIN f }

Init ==
  /\ graph = new
  /\ passed = {}
  /\ pc = "idle"
  /\ start = Unknown
  /\ end = Unknown
  /\ queue = << >>
  /\ visited = {}
  /\ pops = NoScans
  /\ scans = NoScans
  /\ last = [ op |-> "new" ]
  /\ vpc = "idle"
  /\ vqueue = << >>
  /\ vvisited = {}
  /\ vret = None
  /\ main_pc = "start"
  /\ main_ret = None
  /\ pair = 1
  /\ stdout = << >>
  /\ dot_file = None
  /\ csv_last = None
  /\ csv_errs = {}

\* The BFS locals are dropped when the function returns.
NoCall == /\ pc' = "idle" /\ start' = Unknown /\ end' = Unknown
          /\ queue' = << >> /\ visited' = {}
          /\ pops' = NoScans /\ scans' = NoScans
          /\ vpc' = "idle" /\ vqueue' = << >> /\ vvisited' = {}
          /\ vret' = None

CallAddNode(u) ==
  /\ pc = "idle"
  /\ graph' = add_node(graph, u)
  /\ passed' = passed \cup {u}
  /\ last' = [ op |-> "add_node", u |-> u ]
  /\ NoCall
  /\ UNCHANGED main_vars

CallAddEdge(u, v) ==
  /\ pc = "idle"
  /\ graph' = add_edge(graph, u, v)
  /\ passed' = passed \cup {u, v}
  /\ last' = [ op |-> "add_edge", u |-> u, v |-> v ]
  /\ NoCall
  /\ UNCHANGED main_vars

CallToDot ==
  /\ pc = "idle"
  /\ last' = [ op |-> "to_dot", val |-> to_dot(graph) ]
  /\ NoCall
  /\ UNCHANGED << graph, passed, main_vars >>

\* The caller is done with the value a query returned (lines 188-191): the
\* next call starts from the graph alone.
Drop ==
  /\ pc = "done"
  /\ last' = [ op |-> "dropped" ]
  /\ NoCall
  /\ UNCHANGED << graph, passed, main_vars >>

\* lines 74-82: entry of degrees_of_separation
Enter(s, e) ==
  /\ pc = "idle"
  /\ start' = s /\ end' = e
  /\ pops' = NoScans /\ scans' = NoScans
  /\ visited' = {}
  /\ IF early_return(graph, s, e) # None
       THEN /\ pc' = "done"
            /\ queue' = << >>
            /\ last' = [ op |-> "degrees_of_separation", val |-> early_return(graph, s, e)[2] ]
       ELSE /\ pc' = "bfs"
            /\ queue' = << << s, 0 >> >>
            /\ last' = [ op |-> "running" ]
  /\ vpc' = "idle" /\ vqueue' = << >> /\ vvisited' = {}
  /\ vret' = None
  /\ UNCHANGED << graph, passed >>

CallDos(s, e) == Enter(s, e) /\ UNCHANGED main_vars

\* One iteration of `while let Some((current, distance)) = queue.pop_front()`
\* (lines 85-105), or the exit of the loop (line 106).
BfsIter ==
  /\ pc = "bfs"
  /\ IF queue = << >>
       THEN \* line 85 fails to pop, line 106: None
            /\ pc' = "done"
            /\ last' = [ op |-> "degrees_of_separation", val |-> None ]
            /\ visited' = {}
            /\ UNCHANGED << queue, pops, scans >>
       ELSE LET p == pop_front(queue)
                current == p.item[1]
                distance == p.item[2]
                marked == visited \cup {current}
            IN
              /\ pops' = pops (+) SetToBag({current})
              /\ IF current = end
                   THEN \* lines 88-90
                        /\ pc' = "done"
                        /\ last' = [ op |-> "degrees_of_separation", val |-> Some(distance) ]
                        /\ queue' = << >>
                        /\ visited' = {}
                        /\ scans' = scans
                   ELSE IF already_visited(visited, current)
                   THEN \* lines 93-95: continue
                        /\ queue' = p.rest
                        /\ UNCHANGED << pc, last, visited, scans >>
                   ELSE \* lines 93-104: mark, enqueue the unvisited neighbours
                        /\ visited' = marked
                        /\ scans' = scans (+) SetToBag({current})
                        /\ \E order \in Orders(to_enqueue(graph, marked, current)) :
                             queue' = push_all(p.rest, order, distance)
                        /\ UNCHANGED << pc, last >>
  /\ UNCHANGED << graph, passed, start, end, variant_vars, main_vars >>

Next ==
  \/ \E u \in Ids : CallAddNode(u)
  \/ \E u, v \in Ids : CallAddEdge(u, v)
  \/ CallToDot
  \/ \E s, e \in QueryIds : CallDos(s, e)
  \/ BfsIter
  \/ Drop

Spec == Init /\ [][Next]_vars

\* ------------------------------------- the search without the line-100 test
\* lines 98-103 without `if !visited.contains(neighbor)`
unchecked_to_enqueue(g, node) == IF node \in DOMAIN g THEN g[node] ELSE {}

\* The same query (start, end) that degrees_of_separation just answered.
VariantCall ==
  /\ pc = "done" /\ vpc = "idle"
  /\ vvisited' = {}
  /\ IF early_return(graph, start, end) # None
       THEN /\ vpc' = "done"
            /\ vqueue' = << >>
            /\ vret' = early_return(graph, start, end)[2]
       ELSE /\ vpc' = "bfs"
            /\ vqueue' = << << start, 0 >> >>
            /\ vret' = None
  /\ pops' = NoScans /\ scans' = NoScans
  /\ UNCHANGED << graph, passed, pc, start, end, queue, visited, last, main_vars >>

\* One iteration of its loop, or the exit of the loop.
VariantIter ==
  /\ vpc = "bfs"
  /\ IF vqueue = << >>
       THEN /\ vpc' = "done"
            /\ vret' = None
            /\ vvisited' = {}
            /\ vqueue' = vqueue
       ELSE LET p == pop_front(vqueue)
                current == p.item[1]
                distance == p.item[2]
            IN
              IF current = end
                THEN /\ vpc' = "done"
                     /\ vret' = Some(distance)
                     /\ vqueue' = << >>
                     /\ vvisited' = {}
                ELSE IF current \in vvisited
                THEN /\ vqueue' = p.rest
                     /\ UNCHANGED << vpc, vret, vvisited >>
                ELSE /\ vvisited' = vvisited \cup {current}
                     /\ \E order \in Orders(unchecked_to_enqueue(graph, current)) :
                          vqueue' = push_all(p.rest, order, distance)
                     /\ UNCHANGED << vpc, vret >>
  /\ UNCHANGED << graph, passed, bfs_vars, last, main_vars >>

\* Both searches treat identifiers as opaque: they only compare them (lines
\* 75, 88) and look them up in hash sets and maps (lines 93, 95, 100).  Every
\* graph over Ids is reachable, so any renaming of the identifiers maps a
\* reachable (graph, start, end) onto another one; the comparison therefore
\* starts from one representative stored identifier or from the identifier
\* that is never stored, with every end.
VariantStarts == {Names[1], Unknown}

NextVariant ==
  \/ \E u \in Ids : CallAddNode(u)
  \/ \E u, v \in Ids : CallAddEdge(u, v)
  \/ \E s \in VariantStarts, e \in QueryIds : CallDos(s, e)
  \/ BfsIter
  \/ VariantCall
  \/ VariantIter
  \/ Drop

SpecVariant == Init /\ [][NextVariant]_vars

\* ---------------------------------------------------------------- main()
\* lines 125-158: the graph of ten nodes and five edges
MainBuild ==
  /\ main_pc = "start"
  /\ graph' = add_edges(add_nodes(new, FixtureNodes), FixtureEdges)
  /\ passed' = Range(FixtureNodes)
  /\ main_pc' = "csv162"
  /\ UNCHANGED << bfs_vars, last, variant_vars, main_ret, pair, stdout, dot_file, csv_last, csv_errs >>

\* One call graph.add_from_csv(path) of main.  `question_mark`: the call
\* is followed by `?`, which returns the error from main.
MainCsv(at, question_mark, next) ==
  /\ main_pc = at
  /\ \E file \in Files :
       LET r == add_from_csv(graph, file) IN
         /\ graph' = r.graph
         /\ passed' = passed \cup (IF file.opens THEN read_names(data_records(file)) ELSE {})
         /\ csv_last' = Some([ file |-> file, before |-> graph,
                                after |-> r.graph, result |-> r.result ])
         /\ csv_errs' = IF r.result # Ok THEN csv_errs \cup {at} ELSE csv_errs
         /\ IF question_mark /\ r.result # Ok
              THEN main_pc' = "exit" /\ main_ret' = Some(r.result)
              ELSE main_pc' = next /\ main_ret' = main_ret
  /\ UNCHANGED << bfs_vars, last, variant_vars, pair, stdout, dot_file >>

\* lines 162-163
MainCsv162 == MainCsv("csv162", TRUE, "csv163")
MainCsv163 == MainCsv("csv163", TRUE, "csv168")
\* lines 168-169: the Result is not used
MainCsv168 == MainCsv("csv168", FALSE, "csv169")
MainCsv169 == MainCsv("csv169", FALSE, "print172")

\* line 172
MainPrintNodes ==
  /\ main_pc = "print172"
  /\ stdout' = Append(stdout, nodes(graph))
  /\ main_pc' = "query"
  /\ UNCHANGED << graph, passed, bfs_vars, last, variant_vars, main_ret, pair, dot_file, csv_last, csv_errs >>

\* lines 179-188: the call for the next pair
MainQuery ==
  /\ main_pc = "query"
  /\ Enter(QueryPairs[pair][1], QueryPairs[pair][2])
  /\ main_pc' = "match"
  /\ UNCHANGED << main_ret, pair, stdout, dot_file, csv_last, csv_errs >>

\* lines 188-193: print the result, go to the next pair
MainMatch ==
  /\ main_pc = "match" /\ pc = "done"
  /\ stdout' = Append(stdout, << start, end, last.val >>)
  /\ IF pair < Len(QueryPairs)
       THEN pair' = pair + 1 /\ main_pc' = "query"
       ELSE pair' = pair /\ main_pc' = "dot"
  /\ NoCall
  /\ UNCHANGED << graph, passed, last, main_ret, dot_file, csv_last, csv_errs >>

\* lines 196-207: write graph.dot; File::create and write_all may fail
MainDot ==
  /\ main_pc = "dot"
  /\ \E created, written \in BOOLEAN :
       /\ dot_file' = IF created
                        THEN (IF written THEN Some(to_dot(graph)) ELSE Some("partial"))
                        ELSE dot_file
       /\ IF created /\ written
            THEN /\ stdout' = stdout \o << "Graph saved to graph.dot", to_dot(graph) >>
                 /\ main_ret' = Some(Ok)
            ELSE /\ stdout' = stdout
                 /\ main_ret' = Some(Err("io"))
  /\ main_pc' = "exit"
  /\ UNCHANGED << graph, passed, bfs_vars, last, variant_vars, pair, csv_last, csv_errs >>

NextMain ==
  \/ MainBuild
  \/ MainCsv162
  \/ MainCsv163
  \/ MainCsv168
  \/ MainCsv169
  \/ MainPrintNodes
  \/ MainQuery
  \/ BfsIter
  \/ MainMatch
  \/ MainDot

SpecMain == Init /\ [][NextMain]_vars

\* degrees_of_separation is a synchronous call: once entered, its loop runs.
FairSpec == Spec /\ WF_vars(BfsIter)
\* ------------------------------------------------- graph-theoretic terms
\* The neighbour set of u; empty when u is not a node.
neighbours(g, u) == IF u \in DOMAIN g THEN g[u] ELSE {}

\* The identifiers one edge away from a member of S.
step(g, S) == UNION { neighbours(g, n) : n \in S }

\* The identifiers at the end of a path of exactly k edges from s.
RECURSIVE ends_of_paths(_, _, _)
ends_of_paths(g, s, k) == IF k = 0 THEN {s} ELSE step(g, ends_of_paths(g, s, k - 1))

\* There is a path of exactly k edges from s to e.
walk(g, s, e, k) == e \in ends_of_paths(g, s, k)

\* A shortest path never repeats a node, so it has fewer edges than there
\* are identifiers.
LongestPath == Cardinality(QueryIds)
has_path(g, s, e) == \E k \in 0..LongestPath : walk(g, s, e, k)
shortest(g, s, e) ==
  CHOOSE k \in 0..LongestPath : walk(g, s, e, k) /\ \A j \in 0..(k - 1) : ~ walk(g, s, e, j)

Returned == pc = "done"

\* C1: for start # end, degrees_of_separation returns Some(d) with d the
\* minimum number of edges on any path from start to end when a path
\* exists, and None when none exists (unknown start or end included).
C1_ShortestPath ==
  (Returned /\ start # end) =>
    last.val = IF has_path(graph, start, end)
                 THEN Some(shortest(graph, start, end)) ELSE None

\* C1 witness: a query between distinct nodes returned 2 after the search
\* scanned a node other than start.
C1_Witness ==
  /\ Returned /\ start # end /\ last.val = Some(2)
  /\ \E n \in Ids : CopiesIn(n, scans) = 1 /\ n # start

\* C2: v is in the neighbour set of u iff u is in the neighbour set of v.
C2_Symmetry ==
  \A u, v \in QueryIds : v \in neighbours(graph, u) <=> u \in neighbours(graph, v)

\* C2 witness: add_edge on two distinct identifiers has stored both arcs.
C2_Witness ==
  /\ last.op = "add_edge" /\ last.u # last.v
  /\ << last.u, last.v >> \in Arcs(graph) /\ << last.v, last.u >> \in Arcs(graph)

\* C3: every identifier in a neighbour set is a key of the map, and
\* add_edge(u, v) leaves both u and v nodes (u = v included).
C3_Closure ==
  /\ \A k \in DOMAIN graph : graph[k] \subseteq DOMAIN graph
  /\ last.op = "add_edge" => {last.u, last.v} \subseteq nodes(graph)

\* C3 witness: add_edge(u, u) on a graph in which u was the only
\* identifier ever passed: u is a node and its own neighbour.
C3_Witness ==
  /\ last.op = "add_edge" /\ last.u = last.v
  /\ passed = {last.u} /\ neighbours(graph, last.u) = {last.u}

\* C4: add_node of an existing node and add_edge of an existing edge leave
\* the whole adjacency map unchanged.
C4_Idempotence ==
  [][ /\ (last'.op = "add_node" /\ last'.u \in nodes(graph)) => graph' = graph
      /\ ( /\ last'.op = "add_edge"
           /\ last'.v \in neighbours(graph, last'.u)
           /\ last'.u \in neighbours(graph, last'.v) ) => graph' = graph ]_vars

\* C4 witness: add_node was called on a node that has neighbours (add_node
\* never adds a neighbour, so the node existed before the call).
C4_Witness ==
  last.op = "add_node" /\ neighbours(graph, last.u) # {}

\* C5: degrees_of_separation(x, x) returns Some(0), x a node or not.
C5_SameIdentifier ==
  (Returned /\ start = end) => last.val = Some(0)

\* C5 witness: the query returned for an identifier that is no node while
\* the graph holds a node with a self-edge.
C5_Witness ==
  /\ Returned /\ start = end /\ start \notin nodes(graph)
  /\ \E n \in nodes(graph) : n \in graph[n]

\* C6: nodes() is exactly the set of identifiers passed to add_node or
\* add_edge so far (the empty set for a fresh graph).
C6_NodesArePassed ==
  nodes(graph) = passed

\* C6 witness: two identifiers became nodes through add_edge alone.
C6_Witness ==
  last.op = "add_edge" /\ passed = {last.u, last.v} /\ last.u # last.v

ScansOnce == \A n \in BagToSet(scans) : CopiesIn(n, scans) <= 1
ReturnsValue == Returned => last.val \in {None} \cup { Some(d) : d \in 0..LongestPath }

\* C9: every call of degrees_of_separation terminates with Some(distance)
\* or None, and during it every node is marked visited and has its
\* neighbour set scanned at most once.
C9_Terminates ==
  /\ [] ScansOnce
  /\ [] ReturnsValue
  /\ (pc = "bfs") ~> (pc = "done")

\* C9 witness: a search over a complete graph with self-edges and an
\* unknown end has returned None; a node was dequeued twice, and every
\* node was scanned once.
C9_Witness ==
  /\ Returned /\ end = Unknown /\ last.val = None
  /\ \A n \in Ids : CopiesIn(n, scans) = 1 /\ neighbours(graph, n) = Ids
  /\ \E n \in Ids : CopiesIn(n, pops) = 2
\* C10: the search that tests visited-status only at dequeue time and the
\* search that also skips visited neighbours at enqueue time (lines 98-103)
\* return the same value for every graph and every pair (start, end).
C10_SameResult ==
  vpc = "done" => vret = last.val

\* C10 witness: both searches returned 2 from a start node with a
\* self-edge, which the search without the test enqueued although visited.
C10_Witness ==
  vpc = "done" /\ vret = Some(2) /\ start \in neighbours(graph, start)
DotRendered == pc = "idle" /\ last.op = "to_dot"
StatementsAreArcs(body, g) ==
  /\ \A a \in Arcs(g) : CopiesIn(statement(a[1], a[2]), body) = 1
  /\ \A line \in BagToSet(body) : \E a \in Arcs(g) : line = statement(a[1], a[2])
  /\ \A n \in nodes(g) : g[n] = {} => \A line \in BagToSet(body) : line # "    \"" \o n \o "\";\n"

\* C7: the statements "u" -> "v" that to_dot emits are exactly the stored
\* arcs (u, v), each emitted once; a node without neighbours has none.
C7_DotStatements ==
  DotRendered => StatementsAreArcs(last.val.body, graph)

\* The same property for graphs whose identifiers hold no double quote.
PlainIdentifiers ==
  (DotRendered /\ Quoted \notin nodes(graph))
    => StatementsAreArcs(last.val.body, graph)

\* The index of the first record the reader fails on (past the end if none).
first_failure(rows) ==
  IF \E i \in DOMAIN rows : ~ rows[i].ok
    THEN CHOOSE i \in DOMAIN rows : ~ rows[i].ok /\ \A j \in 1..(i - 1) : rows[j].ok
    ELSE Len(rows) + 1

\* add_from_csv returns an error when the source cannot be opened and when
\* a row cannot be read, having added exactly the rows before the failure.
ImportReturnsError ==
  csv_last # None =>
    LET c == csv_last[2]
        rows == data_records(c.file)
    IN /\ ~ c.file.opens => (c.result # Ok /\ c.after = c.before)
       /\ (c.file.opens /\ first_failure(rows) <= Len(rows)) => c.result # Ok
       /\ c.file.opens =>
            nodes(c.after) =
              nodes(c.before) \cup { rows[i].name : i \in 1..(first_failure(rows) - 1) }

\* main() does not end normally after an import that failed.
DriverSurfacesFailure ==
  (main_pc = "exit" /\ csv_errs # {}) => main_ret # Some(Ok)

\* C8: the CSV import fails with an error returned to its caller when the
\* source cannot be opened and when a row cannot be read, only the rows
\* before the failure being added, and the driver main() surfaces such a
\* failure instead of silently skipping it.
C8_ImportFailures ==
  ImportReturnsError /\ DriverSurfacesFailure
====
